---- MODULE Spec2Model ----
(***************************************************************************)
(* Teclas (mod.ts): the platform detector isMacOS, the catalog of key      *)
(* predicates Key, the rule matcher checkKeystroke and the dispatcher      *)
(* built by handleKeyboard, together with the ambient navigator that the   *)
(* test module replaces and restores.                                      *)
(*                                                                         *)
(* A JavaScript string is a sequence of one-character strings.  The        *)
(* outcome of a call is a record: it either returns a boolean or throws.   *)
(***************************************************************************)
EXTENDS Integers, Sequences, FiniteSets

VARIABLES
  navigator,          \* globalThis.navigator, read by isMacOS at every call
  originalNavigator,  \* the navigator the host started with (test module, line 15)
  keystrokes,         \* the rule set captured by the closure handleKeyboard returns
  calls,              \* callback invocations made by the latest dispatcher call
  error,              \* whether the latest dispatcher call raised an error
  log,                \* the dispatcher calls made so far: event, navigator, outcome
  call,               \* the direct call of an exported function that is being made
  ret                 \* what that call returned or threw, Pending before it

vars == <<navigator, originalNavigator, keystrokes, calls, error, log, call, ret>>

----------------------------------------------------------------------------
(* Bounds *)

\* longest generated user-agent string
MaxUALen == 4
\* longest keys (required) list of a generated rule
MaxKeys == 2
\* longest except (excluded) list of a generated rule
MaxExcept == 2
\* longest generated rule set
MaxRules == 2
\* most dispatcher calls recorded in one behaviour
MaxLog == 3

----------------------------------------------------------------------------
(* Outcomes of a call *)

Return(v) == [kind |-> "return", value |-> v]

Throw == [kind |-> "throw", value |-> FALSE]

----------------------------------------------------------------------------
(* User-agent strings *)

\* test user agent, line 34 of the test module (117 characters)
SafariMacUA ==
  <<
     "M", "o", "z", "i", "l", "l", "a", "/", "5", ".", "0", " ", "(", "M", "a", "c",
     "i", "n", "t", "o", "s", "h", ";", " ", "I", "n", "t", "e", "l", " ", "M", "a",
     "c", " ", "O", "S", " ", "X", " ", "1", "0", "_", "1", "5", "_", "7", ")", " ",
     "A", "p", "p", "l", "e", "W", "e", "b", "K", "i", "t", "/", "6", "0", "5", ".",
     "1", ".", "1", "5", " ", "(", "K", "H", "T", "M", "L", ",", " ", "l", "i", "k",
     "e", " ", "G", "e", "c", "k", "o", ")", " ", "V", "e", "r", "s", "i", "o", "n",
     "/", "1", "4", ".", "0", " ", "S", "a", "f", "a", "r", "i", "/", "6", "0", "5",
     ".", "1", ".", "1", "5" >>

\* test user agent, line 40 of the test module (117 characters)
ChromeMacUA ==
  <<
     "M", "o", "z", "i", "l", "l", "a", "/", "5", ".", "0", " ", "(", "M", "a", "c",
     "i", "n", "t", "o", "s", "h", ";", " ", "I", "n", "t", "e", "l", " ", "M", "a",
     "c", " ", "O", "S", " ", "X", " ", "1", "0", "_", "1", "5", "_", "7", ")", " ",
     "A", "p", "p", "l", "e", "W", "e", "b", "K", "i", "t", "/", "5", "3", "7", ".",
     "3", "6", " ", "(", "K", "H", "T", "M", "L", ",", " ", "l", "i", "k", "e", " ",
     "G", "e", "c", "k", "o", ")", " ", "C", "h", "r", "o", "m", "e", "/", "1", "1",
     "4", ".", "0", ".", "0", ".", "0", " ", "S", "a", "f", "a", "r", "i", "/", "5",
     "3", "7", ".", "3", "6" >>

\* test user agent, line 46 of the test module (127 characters)
EdgeWindowsUA ==
  <<
     "M", "o", "z", "i", "l", "l", "a", "/", "5", ".", "0", " ", "(", "W", "i", "n",
     "d", "o", "w", "s", " ", "N", "T", " ", "1", "0", ".", "0", ";", " ", "W", "i",
     "n", "6", "4", ";", " ", "x", "6", "4", ")", " ", "A", "p", "p", "l", "e", "W",
     "e", "b", "K", "i", "t", "/", "5", "3", "7", ".", "3", "6", " ", "(", "K", "H",
     "T", "M", "L", ",", " ", "l", "i", "k", "e", " ", "G", "e", "c", "k", "o", ")",
     " ", "C", "h", "r", "o", "m", "e", "/", "4", "2", ".", "0", ".", "2", "3", "1",
     "1", ".", "1", "3", "5", " ", "S", "a", "f", "a", "r", "i", "/", "5", "3", "7",
     ".", "3", "6", " ", "E", "d", "g", "e", "/", "1", "2", ".", "2", "4", "6" >>

\* test user agent, line 52 of the test module (118 characters)
AndroidUA ==
  <<
     "M", "o", "z", "i", "l", "l", "a", "/", "5", ".", "0", " ", "(", "L", "i", "n",
     "u", "x", ";", " ", "A", "n", "d", "r", "o", "i", "d", " ", "1", "0", ";", " ",
     "S", "M", "-", "G", "9", "7", "3", "F", ")", " ", "A", "p", "p", "l", "e", "W",
     "e", "b", "K", "i", "t", "/", "5", "3", "7", ".", "3", "6", " ", "(", "K", "H",
     "T", "M", "L", ",", " ", "l", "i", "k", "e", " ", "G", "e", "c", "k", "o", ")",
     " ", "C", "h", "r", "o", "m", "e", "/", "1", "1", "2", ".", "0", ".", "0", ".",
     "0", " ", "M", "o", "b", "i", "l", "e", " ", "S", "a", "f", "a", "r", "i", "/",
     "5", "3", "7", ".", "3", "6" >>

\* test user agent, line 58 of the test module (135 characters)
iPhoneUA ==
  <<
     "M", "o", "z", "i", "l", "l", "a", "/", "5", ".", "0", " ", "(", "i", "P", "h",
     "o", "n", "e", ";", " ", "C", "P", "U", " ", "i", "P", "h", "o", "n", "e", " ",
     "O", "S", " ", "1", "5", "_", "4", " ", "l", "i", "k", "e", " ", "M", "a", "c",
     " ", "O", "S", " ", "X", ")", " ", "A", "p", "p", "l", "e", "W", "e", "b", "K",
     "i", "t", "/", "6", "0", "5", ".", "1", ".", "1", "5", " ", "(", "K", "H", "T",
     "M", "L", ",", " ", "l", "i", "k", "e", " ", "G", "e", "c", "k", "o", ")", " ",
     "V", "e", "r", "s", "i", "o", "n", "/", "1", "5", ".", "4", " ", "M", "o", "b",
     "i", "l", "e", "/", "1", "9", "E", "2", "4", "1", " ", "S", "a", "f", "a", "r",
     "i", "/", "6", "0", "4", ".", "1" >>

----------------------------------------------------------------------------
(* The ambient navigator *)

\* globalThis.navigator is undefined: the host has no navigator
NoNavigator == [defined |-> FALSE, hasUserAgent |-> FALSE, userAgent |-> <<>>]

\* a navigator object without a userAgent field
BareNavigator == [defined |-> TRUE, hasUserAgent |-> FALSE, userAgent |-> <<>>]

\* the object mockUserAgent installs: { userAgent: ua }
MockNavigator(ua) == [defined |-> TRUE, hasUserAgent |-> TRUE, userAgent |-> ua]

\* String(undefined), what RegExp.prototype.test makes of a missing userAgent
UndefinedString == <<"u", "n", "d", "e", "f", "i", "n", "e", "d">>

\* navigator.userAgent converted to the string the regular expression scans
ToString(nav) == IF nav.hasUserAgent THEN nav.userAgent ELSE UndefinedString

----------------------------------------------------------------------------
(* isMacOS: /Mac/.test(globalThis.navigator.userAgent) *)

\* the literal pattern of the regular expression /Mac/
Pattern == <<"M", "a", "c">>

\* the pattern's characters j.. match the string at positions i+j-1..
RECURSIVE MatchHere(_, _, _)
MatchHere(s, i, j) ==
  IF j > Len(Pattern) THEN TRUE
  ELSE IF i + j - 1 > Len(s) THEN FALSE
  ELSE IF s[i + j - 1] # Pattern[j] THEN FALSE
  ELSE MatchHere(s, i, j + 1)

\* a regular expression anchored at the start of the string: /^Mac/
RegExpTestAnchored(s, i) == MatchHere(s, i, 1)

\* an unanchored, non-global test: the match is tried at every start position from i on
RegExpTest(s, i) == \E start \in i..Len(s) : MatchHere(s, start, 1)

\* a detector that keeps the classification of the navigator it started with
isMacOSCached ==
  IF ~originalNavigator.defined THEN Throw
  ELSE Return(RegExpTest(ToString(originalNavigator), 1))

\* reading .userAgent of an undefined navigator is a TypeError
isMacOS ==
  IF ~navigator.defined THEN Throw
  ELSE Return(RegExpTest(ToString(navigator), 1))

----------------------------------------------------------------------------
(* JavaScript's short-circuit operators over outcomes *)

\* !x
Not(x) == IF x.kind = "throw" THEN x ELSE Return(~x.value)

\* b && x, with b a comparison that cannot throw: x is evaluated only when b is true
AndAlso(b, x) == IF b THEN x ELSE Return(FALSE)

\* x || y: y is evaluated only when x returned false
OrElse(x, y) == IF x.kind = "throw" \/ x.value THEN x ELSE y

----------------------------------------------------------------------------
(* The catalog Key: an event is a record with the field key *)

Enter(ev) == Return(ev.key = "Enter")

Backspace(ev) == Return(ev.key = "Backspace")

Shift(ev) == Return(ev.key = "Shift")

Escape(ev) == Return(ev.key = "Escape")

Tab(ev) == Return(ev.key = "Tab")

Control(ev) == Return(ev.key = "Control")

Meta(ev) == Return(ev.key = "Meta")

Alt(ev) == Return(ev.key = "Alt")

Spacebar(ev) == Return(ev.key = " ")

Up(ev) == Return(ev.key = "ArrowUp")

Down(ev) == Return(ev.key = "ArrowDown")

Left(ev) == Return(ev.key = "ArrowLeft")

Right(ev) == Return(ev.key = "ArrowRight")

\* CtrlWin without the negation of isMacOS()
CtrlWinOnMac(ev) == AndAlso(ev.key = "Control", isMacOS)

CtrlWin(ev) == AndAlso(ev.key = "Control", Not(isMacOS))

WindowsKey(ev) == AndAlso(ev.key = "Meta", Not(isMacOS))

CtrlMac(ev) == AndAlso(ev.key = "Control", isMacOS)

Command(ev) == AndAlso(ev.key = "Meta", isMacOS)

mod1(ev) ==
  OrElse(AndAlso(ev.key = "Control", Not(isMacOS)), AndAlso(ev.key = "Meta", isMacOS))

\* mod2 that ignores the platform: Control or Meta wherever it runs
mod2AnyPlatform(ev) == Return(ev.key = "Control" \/ ev.key = "Meta")

mod2(ev) ==
  OrElse(AndAlso(ev.key = "Control", isMacOS), AndAlso(ev.key = "Meta", Not(isMacOS)))

\* the names of the catalog's entries
KeyNames ==
  {"Enter", "Backspace", "Shift", "Escape", "Tab", "Control", "Meta", "Alt", "Spacebar",
   "Up", "Down", "Left", "Right", "CtrlWin", "WindowsKey", "CtrlMac", "Command", "mod1",
   "mod2"}

\* Key[name](ev)
Key(name, ev) ==
  CASE name = "Enter" -> Enter(ev)
    [] name = "Backspace" -> Backspace(ev)
    [] name = "Shift" -> Shift(ev)
    [] name = "Escape" -> Escape(ev)
    [] name = "Tab" -> Tab(ev)
    [] name = "Control" -> Control(ev)
    [] name = "Meta" -> Meta(ev)
    [] name = "Alt" -> Alt(ev)
    [] name = "Spacebar" -> Spacebar(ev)
    [] name = "Up" -> Up(ev)
    [] name = "Down" -> Down(ev)
    [] name = "Left" -> Left(ev)
    [] name = "Right" -> Right(ev)
    [] name = "CtrlWin" -> CtrlWin(ev)
    [] name = "WindowsKey" -> WindowsKey(ev)
    [] name = "CtrlMac" -> CtrlMac(ev)
    [] name = "Command" -> Command(ev)
    [] name = "mod1" -> mod1(ev)
    [] name = "mod2" -> mod2(ev)

----------------------------------------------------------------------------
(* checkKeystroke: a keystroke is [keys, except, cb], the lists holding names *)
(* of catalog entries                                                       *)

\* keys.reduce((accumulator, currentValue) => accumulator && currentValue(ev), true)
RECURSIVE reduceKeys(_, _, _, _)
reduceKeys(keys, ev, i, accumulator) ==
  IF i > Len(keys) THEN Return(accumulator)
  ELSE LET step == AndAlso(accumulator, Key(keys[i], ev))
       IN IF step.kind = "throw" THEN step
          ELSE reduceKeys(keys, ev, i + 1, step.value)

\* except.reduce((accumulator, currentValue) => accumulator && !currentValue(ev), true)
RECURSIVE reduceExcept(_, _, _, _)
reduceExcept(except, ev, i, accumulator) ==
  IF i > Len(except) THEN Return(accumulator)
  ELSE LET step == AndAlso(accumulator, Not(Key(except[i], ev)))
       IN IF step.kind = "throw" THEN step
          ELSE reduceExcept(except, ev, i + 1, step.value)

\* a matcher that never looks at the except list
checkKeystrokeKeysOnly(keystroke, ev) == reduceKeys(keystroke.keys, ev, 1, TRUE)

\* a rule without an except field: keystroke.except.reduce throws a TypeError, once
\* the keys list is satisfied
checkKeystroke(keystroke, ev) ==
  LET required == reduceKeys(keystroke.keys, ev, 1, TRUE)
  IN IF required.kind = "throw" THEN required
     ELSE AndAlso(required.value,
                  IF "except" \in DOMAIN keystroke
                  THEN reduceExcept(keystroke.except, ev, 1, TRUE)
                  ELSE Throw)

----------------------------------------------------------------------------
(* handleKeyboard: the dispatcher closure over keystrokes *)

\* keystroke.cb(ev): the callback is observed as the pair (its name, the event)
Invoke(keystroke, ev) == [cb |-> keystroke.cb, ev |-> ev]

\* the callbacks whose function body throws when it is called
ThrowingCallbacks == {"onEnterThrows", "onControlThrows"}

\* a dispatcher that stops at the first matching rule
RECURSIVE forEachFirstMatch(_, _, _, _)
forEachFirstMatch(ks, ev, i, invoked) ==
  IF i > Len(ks) THEN [calls |-> invoked, error |-> FALSE]
  ELSE LET matched == checkKeystroke(ks[i], ev)
       IN IF matched.kind = "throw" THEN [calls |-> invoked, error |-> TRUE]
          ELSE IF matched.value
               THEN [calls |-> Append(invoked, Invoke(ks[i], ev)), error |-> FALSE]
               ELSE forEachFirstMatch(ks, ev, i + 1, invoked)

\* a dispatcher that catches what a callback throws and goes on with the next rule
RECURSIVE forEachIsolated(_, _, _, _)
forEachIsolated(ks, ev, i, invoked) ==
  IF i > Len(ks) THEN [calls |-> invoked, error |-> FALSE]
  ELSE LET matched == checkKeystroke(ks[i], ev)
       IN IF matched.kind = "throw" THEN [calls |-> invoked, error |-> TRUE]
          ELSE IF matched.value
               THEN forEachIsolated(ks, ev, i + 1, Append(invoked, Invoke(ks[i], ev)))
               ELSE forEachIsolated(ks, ev, i + 1, invoked)

\* keystrokes.forEach((keystroke) => { if (checkKeystroke(keystroke, ev)) keystroke.cb(ev) })
\* an error thrown inside the loop, by checkKeystroke or by the callback, ends the
\* loop and leaves the dispatcher; calling a cb that is undefined is a TypeError
RECURSIVE forEach(_, _, _, _)
forEach(ks, ev, i, invoked) ==
  IF i > Len(ks) THEN [calls |-> invoked, error |-> FALSE]
  ELSE LET matched == checkKeystroke(ks[i], ev)
       IN IF matched.kind = "throw" THEN [calls |-> invoked, error |-> TRUE]
          ELSE IF matched.value
               THEN IF "cb" \notin DOMAIN ks[i]
                    THEN [calls |-> invoked, error |-> TRUE]
                    ELSE IF ks[i].cb \in ThrowingCallbacks
                    THEN [calls |-> Append(invoked, Invoke(ks[i], ev)), error |-> TRUE]
                    ELSE forEach(ks, ev, i + 1, Append(invoked, Invoke(ks[i], ev)))
               ELSE forEach(ks, ev, i + 1, invoked)

\* a dispatcher that ignores an event repeating the one before it
handleKeyboardDebounced(ks, ev) ==
  IF log # <<>> /\ log[Len(log)].ev = ev
  THEN [calls |-> <<>>, error |-> FALSE]
  ELSE forEach(ks, ev, 1, <<>>)

\* handleKeyboard(ks)(ev)
handleKeyboard(ks, ev) == forEach(ks, ev, 1, <<>>)

----------------------------------------------------------------------------
(* Inputs *)

\* every sequence over S of length at most n
RECURSIVE SeqsUpTo(_, _)
SeqsUpTo(S, n) ==
  IF n = 0 THEN {<<>>}
  ELSE LET shorter == SeqsUpTo(S, n - 1)
       IN shorter \cup {Append(s, x) : s \in {t \in shorter : Len(t) = n - 1}, x \in S}

\* characters of the generated user-agent strings
UAChars == {"M", "a", "c", "x"}

\* the test module's cases: a user agent and the value isMacOS() is expected to return
testCasesIsMacOS ==
  { [ua |-> SafariMacUA, expected |-> TRUE],
    [ua |-> ChromeMacUA, expected |-> TRUE],
    [ua |-> EdgeWindowsUA, expected |-> FALSE],
    [ua |-> AndroidUA, expected |-> FALSE],
    [ua |-> iPhoneUA, expected |-> FALSE] }

\* cases of the same shape over the generated user agents, with either expectation
TestCases ==
  testCasesIsMacOS \cup
    {[ua |-> ua, expected |-> x] : ua \in SeqsUpTo(UAChars, MaxUALen), x \in BOOLEAN}

\* the navigators the catalog and the matcher are called under
PlatformNavigators ==
  {NoNavigator, BareNavigator, MockNavigator(SafariMacUA), MockNavigator(EdgeWindowsUA)}

\* the key identities the catalog names, and one it does not
KeyIds ==
  {"Enter", "Backspace", "Shift", "Escape", "Tab", "Control", "Meta", "Alt", " ",
   "ArrowUp", "ArrowDown", "ArrowLeft", "ArrowRight", "a"}

NoEvent == [key |-> ""]

NoKeystroke == [keys |-> <<>>, except |-> <<>>, cb |-> ""]

\* the predicates and events of the generated rules
CheckPreds == {"Enter", "Shift", "Control", "mod1", "Command"}

CheckEvents == {[key |-> k] : k \in {"Enter", "Shift", "Control", "Meta"}}

CheckKeystrokes ==
  {[keys |-> k, except |-> x, cb |-> "cb"] :
     k \in SeqsUpTo(CheckPreds, MaxKeys), x \in SeqsUpTo(CheckPreds, MaxExcept)}

\* the README's rule set as it is written: no rule has an except field, and each cb
\* is the value of console.log(..), which is undefined
ReadmeKeystrokes ==
  << [keys |-> <<"Enter">>],
     [keys |-> <<"mod1">>],
     [keys |-> <<"mod1", "Shift", "Enter">>] >>

\* the README's keys lists in rules of the type iKeystroke: an except list, and a
\* function as cb
ReadmeTypedKeystrokes ==
  << [keys |-> <<"Enter">>, except |-> <<>>, cb |-> "onEnter"],
     [keys |-> <<"mod1">>, except |-> <<>>, cb |-> "onMod1"],
     [keys |-> <<"mod1", "Shift", "Enter">>, except |-> <<>>, cb |-> "onMod1ShiftEnter"] >>

\* the rules of the generated rule sets
RulePool ==
  { ReadmeTypedKeystrokes[1],
    ReadmeTypedKeystrokes[2],
    [keys |-> <<>>, except |-> <<"Shift", "CtrlMac">>, cb |-> "onOther"] }

RuleSets == SeqsUpTo(RulePool, MaxRules) \cup {ReadmeTypedKeystrokes}

\* the navigators a host starts with, and the user agents a test installs
HostNavigators == {NoNavigator, MockNavigator(EdgeWindowsUA)}

MockUAs == {SafariMacUA}

\* the events sent to the dispatcher
Events == {[key |-> k] : k \in {"Enter", "Shift", "Control", "Meta"}}

\* rules whose callbacks throw, beside rules whose callbacks return
ThrowRulePool ==
  { ReadmeTypedKeystrokes[1],
    ReadmeTypedKeystrokes[2],
    [keys |-> <<"Enter">>, except |-> <<>>, cb |-> "onEnterThrows"],
    [keys |-> <<"Control">>, except |-> <<"CtrlMac">>, cb |-> "onControlThrows"] }

\* a throwing callback between two rules that match the same event
ThrowInTheMiddle ==
  << ReadmeTypedKeystrokes[1],
     [keys |-> <<"Enter">>, except |-> <<>>, cb |-> "onEnterThrows"],
     [keys |-> <<>>, except |-> <<"Shift">>, cb |-> "onOther"] >>

ThrowRuleSets == SeqsUpTo(ThrowRulePool, MaxRules) \cup {ThrowInTheMiddle}

\* the platforms the throwing callbacks are dispatched on
ThrowNavigators == {MockNavigator(EdgeWindowsUA), MockNavigator(SafariMacUA)}

----------------------------------------------------------------------------
(* Direct calls of the exported functions *)

Pending == [kind |-> "pending", value |-> FALSE]

IsMacOSCalls == {[fn |-> "isMacOS", name |-> "", keystroke |-> NoKeystroke, ev |-> NoEvent]}

KeyCalls ==
  {[fn |-> "Key", name |-> n, keystroke |-> NoKeystroke, ev |-> [key |-> k]] :
     n \in KeyNames, k \in KeyIds}

CheckKeystrokeCalls ==
  {[fn |-> "checkKeystroke", name |-> "", keystroke |-> ks, ev |-> e] :
     ks \in CheckKeystrokes, e \in CheckEvents}

NoCall == [fn |-> "none", name |-> "", keystroke |-> NoKeystroke, ev |-> NoEvent]

\* isMacOS()
CallIsMacOS ==
  /\ call.fn = "isMacOS"
  /\ ret = Pending
  /\ ret' = isMacOS
  /\ UNCHANGED <<navigator, originalNavigator, keystrokes, calls, error, log, call>>

\* Key[call.name](call.ev)
CallKey ==
  /\ call.fn = "Key"
  /\ ret = Pending
  /\ ret' = Key(call.name, call.ev)
  /\ UNCHANGED <<navigator, originalNavigator, keystrokes, calls, error, log, call>>

\* checkKeystroke(call.keystroke, call.ev)
CallCheckKeystroke ==
  /\ call.fn = "checkKeystroke"
  /\ ret = Pending
  /\ ret' = checkKeystroke(call.keystroke, call.ev)
  /\ UNCHANGED <<navigator, originalNavigator, keystrokes, calls, error, log, call>>

----------------------------------------------------------------------------
(* The dispatcher and its environment *)

\* the dispatcher called with ev
Dispatch(ev) ==
  /\ Len(log) < MaxLog
  /\ LET done == handleKeyboard(keystrokes, ev)
     IN /\ calls' = done.calls
        /\ error' = done.error
        /\ log' = Append(log, [ev |-> ev, navigator |-> navigator,
                               calls |-> done.calls, error |-> done.error])
  /\ UNCHANGED <<navigator, originalNavigator, keystrokes, call, ret>>

\* the test's mockUserAgent(ua): navigator becomes { userAgent: ua }
mockUserAgent(ua) ==
  /\ navigator' = MockNavigator(ua)
  /\ UNCHANGED <<originalNavigator, keystrokes, calls, error, log, call, ret>>

\* the test's restore step: navigator becomes originalNavigator again
restoreNavigator ==
  /\ navigator' = originalNavigator
  /\ UNCHANGED <<originalNavigator, keystrokes, calls, error, log, call, ret>>

----------------------------------------------------------------------------
(* Specifications *)

\* the dispatcher built from a rule set, in a host whose navigator tests replace
Init ==
  /\ originalNavigator \in HostNavigators
  /\ navigator = originalNavigator
  /\ keystrokes \in RuleSets
  /\ calls = <<>>
  /\ error = FALSE
  /\ log = <<>>
  /\ call = NoCall
  /\ ret = Pending

Next ==
  \/ \E ev \in Events : Dispatch(ev)
  \/ \E ua \in MockUAs : mockUserAgent(ua)
  \/ restoreNavigator

Spec == Init /\ [][Next]_vars

\* a step of the test: mockUserAgent(testCase.ua), then isMacOS() is about to be called
testStepMock(testCase) ==
  /\ call = NoCall
  /\ navigator' = MockNavigator(testCase.ua)
  /\ call' = [fn |-> "isMacOS", name |-> "", keystroke |-> NoKeystroke, ev |-> NoEvent,
              expected |-> testCase.expected]
  /\ UNCHANGED <<originalNavigator, keystrokes, calls, error, log, ret>>

\* the rest of the step: assertEquals(result, testCase.expected), then the navigator is
\* restored; a failed assertion throws and leaves the step before the restore
testStepAssert ==
  /\ call.fn = "isMacOS"
  /\ ret # Pending
  /\ navigator' = IF ret = Return(call.expected) THEN originalNavigator ELSE navigator
  /\ call' = NoCall
  /\ ret' = Pending
  /\ UNCHANGED <<originalNavigator, keystrokes, calls, error, log>>

\* the test 'isMacOS function tests with sub-tests', its steps in any order
InitUA ==
  /\ originalNavigator \in HostNavigators
  /\ navigator = originalNavigator
  /\ keystrokes = <<>>
  /\ calls = <<>>
  /\ error = FALSE
  /\ log = <<>>
  /\ call = NoCall
  /\ ret = Pending

NextUA ==
  \/ \E testCase \in TestCases : testStepMock(testCase)
  \/ CallIsMacOS
  \/ testStepAssert

SpecUA == InitUA /\ [][NextUA]_vars

\* isMacOS, the catalog's entries and checkKeystroke called on every input
InitCheck ==
  /\ navigator \in PlatformNavigators
  /\ originalNavigator = navigator
  /\ keystrokes = <<>>
  /\ calls = <<>>
  /\ error = FALSE
  /\ log = <<>>
  /\ call \in KeyCalls \cup CheckKeystrokeCalls \cup IsMacOSCalls
  /\ ret = Pending

NextCheck == CallKey \/ CallCheckKeystroke \/ CallIsMacOS

SpecCheck == InitCheck /\ [][NextCheck]_vars

\* the dispatcher built from a rule set some of whose callbacks throw
InitThrow ==
  /\ navigator \in ThrowNavigators
  /\ originalNavigator = navigator
  /\ keystrokes \in ThrowRuleSets
  /\ calls = <<>>
  /\ error = FALSE
  /\ log = <<>>
  /\ call = NoCall
  /\ ret = Pending

NextThrow == \E ev \in Events : Dispatch(ev)

SpecThrow == InitThrow /\ [][NextThrow]_vars

\* the dispatcher built from the README's rule set, as written and well-typed
InitReadme ==
  /\ originalNavigator \in HostNavigators
  /\ navigator = originalNavigator
  /\ keystrokes \in {ReadmeKeystrokes, ReadmeTypedKeystrokes}
  /\ calls = <<>>
  /\ error = FALSE
  /\ log = <<>>
  /\ call = NoCall
  /\ ret = Pending

SpecReadme == InitReadme /\ [][Next]_vars


----------------------------------------------------------------------------
(* Properties *)

\* the direct call of fn has been made
Done(fn) == call.fn = fn /\ ret # Pending

\* the string s contains the substring "Mac"
ContainsMac(s) == \E i \in 1..(Len(s) - 2) : SubSeq(s, i, i + 2) = <<"M", "a", "c">>

\* the platform nav stands for is macOS, respectively is another platform
OnMacOS(nav) ==
  nav.defined /\ ContainsMac(IF nav.hasUserAgent THEN nav.userAgent ELSE UndefinedString)

NotMacOS(nav) ==
  nav.defined /\ ~ContainsMac(IF nav.hasUserAgent THEN nav.userAgent ELSE UndefinedString)

AllRequiredTrue(ks, ev) == \A i \in 1..Len(ks.keys) : Key(ks.keys[i], ev) = Return(TRUE)

AllExcludedFalse(ks, ev) == \A i \in 1..Len(ks.except) : Key(ks.except[i], ev) = Return(FALSE)

EveryPredicateReturns(ks, ev) ==
  /\ \A i \in 1..Len(ks.keys) : Key(ks.keys[i], ev).kind = "return"
  /\ \A i \in 1..Len(ks.except) : Key(ks.except[i], ev).kind = "return"

\* C1: checkKeystroke returns true exactly when every predicate of the keys list is
\* true on the event and every predicate of the except list is false on it (an empty
\* list is satisfied); when every predicate returns, one failing required predicate
\* or one succeeding excluded predicate makes the result false.
C1_CheckKeystrokeIff ==
  Done("checkKeystroke") =>
    LET satisfied ==
          AllRequiredTrue(call.keystroke, call.ev) /\ AllExcludedFalse(call.keystroke, call.ev)
    IN /\ (ret = Return(TRUE)) <=> satisfied
       /\ EveryPredicateReturns(call.keystroke, call.ev) => ret = Return(satisfied)

\* every required predicate holds, one excluded predicate succeeds and another fails
C1_Witness ==
  /\ Done("checkKeystroke")
  /\ call.keystroke.keys # <<>>
  /\ AllRequiredTrue(call.keystroke, call.ev)
  /\ \E i, j \in 1..Len(call.keystroke.except) :
       /\ Key(call.keystroke.except[i], call.ev) = Return(TRUE)
       /\ Key(call.keystroke.except[j], call.ev) = Return(FALSE)
  /\ ret = Return(FALSE)

\* the rules of ks that checkKeystroke matches on ev
MatchingRules(ks, ev) == {i \in 1..Len(ks) : checkKeystroke(ks[i], ev) = Return(TRUE)}

\* checkKeystroke returns for every rule of ks on ev
EveryRuleDecided(ks, ev) == \A i \in 1..Len(ks) : checkKeystroke(ks[i], ev).kind = "return"

\* cs invokes, in the order of ks, the callback of each matching rule once with ev
IsMatchingSubsequence(cs, ks, ev) ==
  /\ Len(cs) = Cardinality(MatchingRules(ks, ev))
  /\ \E f \in [1..Len(cs) -> MatchingRules(ks, ev)] :
       /\ \A a, b \in 1..Len(cs) : a < b => f[a] < f[b]
       /\ \A a \in 1..Len(cs) : cs[a] = [cb |-> ks[f[a]].cb, ev |-> ev]

\* C2: one dispatcher call invokes exactly the callbacks of the rules that match the
\* event, in the rule set's order, each once with that event, and raises no error; it
\* does not stop at the first match, and with no matching rule it invokes nothing.
C2_DispatchMatchingInOrder ==
  [][log' # log =>
       LET ev == log'[Len(log')].ev
       IN EveryRuleDecided(keystrokes, ev) =>
            /\ IsMatchingSubsequence(calls', keystrokes, ev)
            /\ error' = FALSE]_vars

\* two different rules matched one event and both callbacks fired, in rule order
C2_Witness ==
  /\ log # <<>>
  /\ Len(keystrokes) >= 2
  /\ Len(calls) = 2
  /\ calls[1] = [cb |-> keystrokes[1].cb, ev |-> log[Len(log)].ev]
  /\ calls[2] = [cb |-> keystrokes[2].cb, ev |-> log[Len(log)].ev]
  /\ calls[1].cb # calls[2].cb
  /\ ~error

\* C3: with the user agent s installed, isMacOS() returns true if s contains "Mac"
\* and false if it does not, the empty string included.
C3_IsMacOSIffContainsMac ==
  (Done("isMacOS") /\ navigator.defined /\ navigator.hasUserAgent) =>
    ret = Return(ContainsMac(navigator.userAgent))

\* "Mac" found away from the start of the string
C3_Witness ==
  /\ Done("isMacOS")
  /\ navigator = MockNavigator(<<"x", "M", "a", "c">>)
  /\ ret = Return(TRUE)

\* C4: isMacOS() returns false under the test's iPhone user agent.
C4_iPhoneIsNotMacOS ==
  (Done("isMacOS") /\ navigator = MockNavigator(iPhoneUA)) => ret = Return(FALSE)

\* C5: isMacOS() never throws, and returns false when the navigator or its userAgent
\* is missing or the userAgent is empty.
C5_IsMacOSNeverThrows ==
  Done("isMacOS") =>
    /\ ret.kind = "return"
    /\ (~navigator.defined \/ ~navigator.hasUserAgent \/ navigator.userAgent = <<>>) =>
         ret = Return(FALSE)

\* C6: mod1 and mod2 are never both true on one event; on macOS mod1 is true for
\* "Meta" and false for "Control", elsewhere true for "Control" and false for "Meta",
\* and mod2 takes the opposite value on those two keys.
C6_Mod1Mod2Exclusive ==
  (Done("Key") /\ call.name \in {"mod1", "mod2"}) =>
    LET other == IF call.name = "mod1" THEN mod2(call.ev) ELSE mod1(call.ev)
        primary == IF OnMacOS(navigator) THEN "Meta" ELSE "Control"
        secondary == IF OnMacOS(navigator) THEN "Control" ELSE "Meta"
    IN /\ ~(ret = Return(TRUE) /\ other = Return(TRUE))
       /\ (OnMacOS(navigator) \/ NotMacOS(navigator)) =>
            /\ (call.name = "mod1" /\ call.ev.key = primary) => ret = Return(TRUE)
            /\ (call.name = "mod1" /\ call.ev.key = secondary) => ret = Return(FALSE)
            /\ (call.name = "mod2" /\ call.ev.key = primary) => ret = Return(FALSE)
            /\ (call.name = "mod2" /\ call.ev.key = secondary) => ret = Return(TRUE)

\* mod2 called with "Control" where mod1 is true: on a platform that is not macOS
C6_Witness ==
  /\ Done("Key")
  /\ call.name = "mod2"
  /\ call.ev.key = "Control"
  /\ NotMacOS(navigator)
  /\ mod1(call.ev) = Return(TRUE)
  /\ ret = Return(FALSE)

\* C7: for the README's rule with the keys list [mod1, Shift, Enter] there is a key
\* event on which the dispatcher fires that rule's callback.
C7_CombinationDetected ==
  (Len(keystrokes) = 3 /\ keystrokes[3].keys = <<"mod1", "Shift", "Enter">>) =>
    \E k \in KeyIds :
      LET done == handleKeyboard(keystrokes, [key |-> k])
      IN \E n \in 1..Len(done.calls) : done.calls[n].cb = ReadmeTypedKeystrokes[3].cb

\* the key identity each platform-independent catalog entry is specified to match
LiteralKey(name) ==
  CASE name = "Spacebar" -> " "
    [] name = "Up" -> "ArrowUp"
    [] name = "Down" -> "ArrowDown"
    [] name = "Left" -> "ArrowLeft"
    [] name = "Right" -> "ArrowRight"
    [] OTHER -> name

\* what the catalog entry name is specified to answer for key on a platform
ExpectedKey(name, key, mac) ==
  CASE name = "CtrlWin" -> key = "Control" /\ ~mac
    [] name = "WindowsKey" -> key = "Meta" /\ ~mac
    [] name = "CtrlMac" -> key = "Control" /\ mac
    [] name = "Command" -> key = "Meta" /\ mac
    [] name = "mod1" -> (key = "Control" /\ ~mac) \/ (key = "Meta" /\ mac)
    [] name = "mod2" -> (key = "Control" /\ mac) \/ (key = "Meta" /\ ~mac)
    [] OTHER -> key = LiteralKey(name)

ExpectedMatch(ks, key, mac) ==
  /\ \A i \in 1..Len(ks.keys) : ExpectedKey(ks.keys[i], key, mac)
  /\ \A i \in 1..Len(ks.except) : ~ExpectedKey(ks.except[i], key, mac)

\* the recorded dispatcher call invoked the callback of the rule ks
Fired(entry, ks) == \E n \in 1..Len(entry.calls) : entry.calls[n].cb = ks.cb

\* C8: every dispatcher call classifies the platform from the user agent installed
\* when that call is made: a rule's callback fires exactly when the rule matches
\* the event on the platform of that moment.
C8_PlatformReadAtEveryCall ==
  \A n \in 1..Len(log) :
    log[n].navigator.defined =>
      \A i \in 1..Len(keystrokes) :
        Fired(log[n], keystrokes[i]) <=>
          ExpectedMatch(keystrokes[i], log[n].ev.key, OnMacOS(log[n].navigator))

\* the same event fired different callbacks before and after the user agent changed
C8_Witness ==
  \E m, n \in 1..Len(log) :
    /\ m < n
    /\ log[m].ev = log[n].ev
    /\ log[m].navigator.defined /\ log[n].navigator.defined
    /\ OnMacOS(log[m].navigator) # OnMacOS(log[n].navigator)
    /\ log[m].calls # <<>>
    /\ log[n].calls = <<>>

\* C9: under one rule set and one user agent, two dispatcher calls with the same
\* event invoke the same callbacks in the same order and end the same way, whatever
\* was dispatched before each; and no step changes the rule set.
C9_NoHistory ==
  /\ [](\A m, n \in 1..Len(log) :
          (log[m].ev = log[n].ev /\ log[m].navigator = log[n].navigator) =>
            (log[m].calls = log[n].calls /\ log[m].error = log[n].error))
  /\ [][keystrokes' = keystrokes]_vars

\* an event fired its callback, another event followed, and the first event fired
\* the same callback again
C9_Witness ==
  /\ Len(log) = 3
  /\ log[1].ev = log[3].ev
  /\ log[2].ev # log[1].ev
  /\ log[1].navigator = log[3].navigator
  /\ log[1].calls # <<>>
  /\ log[2].calls # <<>>
  /\ log[3].calls = log[1].calls

\* C10: each platform-specific predicate is true exactly when its key and its
\* platform both match, mod1 is true exactly when CtrlWin or Command is, mod2 exactly
\* when CtrlMac or WindowsKey is, and each returns a boolean wherever a navigator
\* exists.
C10_PlatformPredicates ==
  Done("Key") =>
    LET key == call.ev.key
        yes == (ret = Return(TRUE))
    IN /\ navigator.defined => ret.kind = "return"
       /\ call.name = "CtrlWin" => (yes <=> (key = "Control" /\ NotMacOS(navigator)))
       /\ call.name = "WindowsKey" => (yes <=> (key = "Meta" /\ NotMacOS(navigator)))
       /\ call.name = "CtrlMac" => (yes <=> (key = "Control" /\ OnMacOS(navigator)))
       /\ call.name = "Command" => (yes <=> (key = "Meta" /\ OnMacOS(navigator)))
       /\ call.name = "mod1" =>
            (yes <=> (CtrlWin(call.ev) = Return(TRUE) \/ Command(call.ev) = Return(TRUE)))
       /\ call.name = "mod2" =>
            (yes <=> (CtrlMac(call.ev) = Return(TRUE) \/ WindowsKey(call.ev) = Return(TRUE)))

\* CtrlWin called with "Control" on a platform that is not macOS
C10_Witness ==
  /\ Done("Key")
  /\ call.name = "CtrlWin"
  /\ call.ev.key = "Control"
  /\ NotMacOS(navigator)
  /\ ret = Return(TRUE)

\* the first rule of ks that matches ev and whose callback throws, 0 if there is none
FirstThrowing(ks, ev) ==
  LET throwing == {i \in MatchingRules(ks, ev) : ks[i].cb \in ThrowingCallbacks}
  IN IF throwing = {} THEN 0
     ELSE CHOOSE i \in throwing : \A j \in throwing : i <= j

\* C11: when the callback of a matching rule throws, the dispatcher call ends with
\* that error: the callbacks of the matching rules up to and including the throwing
\* one have been invoked, in rule order, and no callback of a later rule is; when no
\* invoked callback throws, the call ends without error; and every call, made after
\* a failed call or not, has the outcome its event alone determines.
C11_CallbackErrorStopsDispatch ==
  \A n \in 1..Len(log) :
    (log[n].navigator = navigator /\ EveryRuleDecided(keystrokes, log[n].ev)) =>
      LET stop == FirstThrowing(keystrokes, log[n].ev)
      IN IF stop = 0
         THEN /\ ~log[n].error
              /\ IsMatchingSubsequence(log[n].calls, keystrokes, log[n].ev)
         ELSE /\ log[n].error
              /\ IsMatchingSubsequence(log[n].calls, SubSeq(keystrokes, 1, stop), log[n].ev)
              /\ log[n].calls[Len(log[n].calls)].cb = keystrokes[stop].cb

\* the second of three matching rules threw: the first callback and the throwing one
\* were invoked, the third was not, the error left the dispatcher, and the next call
\* with another event ended without error
C11_Witness ==
  /\ Len(log) >= 2
  /\ Len(keystrokes) = 3
  /\ MatchingRules(keystrokes, log[1].ev) = {1, 2, 3}
  /\ FirstThrowing(keystrokes, log[1].ev) = 2
  /\ log[1].error
  /\ Len(log[1].calls) = 2
  /\ ~Fired(log[1], keystrokes[3])
  /\ log[2].ev # log[1].ev
  /\ ~log[2].error
  /\ log[2].calls # <<>>

====
